---- MODULE Spec2Model ----
(***************************************************************************)
(* InquirerPy fuzzy prompt (InquirerPy/prompts/fuzzy/fuzzy.py): the        *)
(* choice list, its filtered view, the highlighted index, the multiselect  *)
(* flags and the Enter handler, as a state machine with one action per    *)
(* key binding / buffer event.                                             *)
(*                                                                         *)
(* Python values are written as follows.                                   *)
(*   str            a sequence of one-character strings                    *)
(*   list index     0-based, as in the source; TLA+ sequences are 1-based, *)
(*                  so list[i] is seq[i + 1]                               *)
(*   a result       [tag, v]: None is [tag |-> "None", v |-> <<>>], a      *)
(*                  single value x is [tag |-> "value", v |-> <<x>>], a    *)
(*                  list l is [tag |-> "list", v |-> l]                    *)
(*   an exception   the name of the exception that left the handler, in    *)
(*                  the variable raised ("none" when it returned)          *)
(***************************************************************************)
EXTENDS Integers, Sequences, FiniteSets

\* Longest choice list given to the constructor.
MaxChoices == 2

\* Longest text typed in the input buffer.
MaxQueryLen == 2

(***************************************************************************)
(* Inputs                                                                  *)
(***************************************************************************)

Apple == <<"A", "p", "p", "l", "e">>

banana == <<"b", "a", "n", "a", "n", "a">>

grape == <<"g", "r", "a", "p", "e">>

SeparatorName == <<"-", "-", "-">>

\* The caller's choices: {"name": ..., "value": ...} dictionaries, and a
\* Separator instance (whose value is the Separator itself).
Pool ==
  { [name |-> Apple, value |-> "v_apple"],
    [name |-> banana, value |-> "v_banana"],
    [name |-> grape, value |-> "v_grape"],
    [name |-> SeparatorName, value |-> "Separator"] }

\* isinstance(value, Separator)
IsSeparator(value) == value = "Separator"

\* The choice lists a caller passes: non-empty, no entry twice.
ChoiceLists ==
  { l \in UNION { [1..n -> Pool] : n \in 1..MaxChoices } :
      \A i, j \in DOMAIN l : l[i] = l[j] => i = j }

\* The default argument: a value, or None.
Defaults == { c.value : c \in Pool } \cup { "None" }

\* Characters the user types.
QueryChars == { "a", "P" }

\* The texts the input buffer can hold.
Queries == UNION { [1..n -> QueryChars] : n \in 0..MaxQueryLen }

(***************************************************************************)
(* Results                                                                 *)
(***************************************************************************)

None == [tag |-> "None", v |-> <<>>]

Value(x) == [tag |-> "value", v |-> <<x>>]

List(l) == [tag |-> "list", v |-> l]

\* Nothing was handed over (no validator call, no exit yet).
Unset == [tag |-> "unset", v |-> <<>>]

(***************************************************************************)
(* fzy matcher (InquirerPy/prompts/fuzzy/fzy.py)                           *)
(***************************************************************************)

\* str.lower() on one character.
lower(c) ==
  CASE c = "A" -> "a"
    [] c = "B" -> "b"
    [] c = "G" -> "g"
    [] c = "P" -> "p"
    [] c = "Z" -> "z"
    [] OTHER -> c

IsUpper(c) == lower(c) # c

IsBoundary(c) == c \in { "-", "_", " ", "/", "." }

\* The ways query[i..] matches haystack[from..] as an ordered subsequence,
\* case-insensitively: sequences of (1-based) haystack positions.
RECURSIVE Embeddings(_, _, _, _)
Embeddings(query, haystack, i, from) ==
  IF i > Len(query) THEN { <<>> }
  ELSE UNION { { <<j>> \o rest : rest \in Embeddings(query, haystack, i + 1, j + 1) } :
               j \in { k \in from..Len(haystack) : lower(haystack[k]) = lower(query[i]) } }

ScoreMatchStart == 20

ScoreMatchBoundary == 16

ScoreMatchCapital == 14

ScoreMatchConsecutive == 20

ScoreGap == 1

\* The bonus of a match at haystack position j that does not continue a run.
Bonus(haystack, j) ==
  IF j = 1 THEN ScoreMatchStart
  ELSE IF IsBoundary(haystack[j - 1]) THEN ScoreMatchBoundary
  ELSE IF IsUpper(haystack[j]) /\ ~IsUpper(haystack[j - 1]) THEN ScoreMatchCapital
  ELSE 0

RECURSIVE SumTo(_, _)
SumTo(f, n) == IF n = 0 THEN 0 ELSE f[n] + SumTo(f, n - 1)

\* The score of one alignment: bonuses for a match at the start, after a
\* boundary and in a consecutive run, less one gap penalty per skipped
\* character before the last match.
Score(haystack, p) ==
  LET m == Len(p)
      pts == [i \in 1..m |->
                IF i > 1 /\ p[i] = p[i - 1] + 1 THEN ScoreMatchConsecutive
                ELSE Bonus(haystack, p[i])]
  IN  SumTo(pts, m) - ScoreGap * (p[m] - m)

\* p comes before q in lexicographic order, or is q.
LexLeq(p, q) ==
  \/ p = q
  \/ \E i \in 1..Len(p) : /\ p[i] < q[i]
                          /\ \A k \in 1..(i - 1) : p[k] = q[k]

\* The match of a non-empty query against one haystack: whether it matches,
\* the best score, and the 0-based positions of the best alignment.
fzy_scorer(query, haystack) ==
  LET all == Embeddings(query, haystack, 1, 1)
  IN  IF all = {} THEN [matched |-> FALSE, score |-> 0, indices |-> <<>>]
      ELSE LET top == CHOOSE s \in { Score(haystack, p) : p \in all } :
                        \A p \in all : Score(haystack, p) <= s
               best == { p \in all : Score(haystack, p) = top }
               pick == CHOOSE p \in best : \A q \in best : LexLeq(p, q)
           IN  [matched |-> TRUE, score |-> top,
                indices |-> [i \in 1..Len(pick) |-> pick[i] - 1]]

\* Every match the session can ask for, computed once.
MatchTable ==
  { [query |-> q, haystack |-> n, hit |-> fzy_scorer(q, n)] :
      q \in Queries \ { <<>> }, n \in { c.name : c \in Pool } }

\* The matches of query against the names of cs[i..], in list order.
RECURSIVE Hits(_, _, _)
Hits(query, cs, i) ==
  IF i > Len(cs) THEN <<>>
  ELSE << (CHOOSE r \in MatchTable :
             r.query = query /\ r.haystack = cs[i].name).hit >>
       \o Hits(query, cs, i + 1)

\* fuzzy_match_py(query, choices) for a non-empty query: the choices that
\* match, best score first and equal scores in list order, as references
\* (0-based list positions) with each one's matched positions beside it.
fuzzy_match_py(query, cs) ==
  LET hit == Hits(query, cs, 1)
      M == { i \in DOMAIN cs : hit[i].matched }
      before(j, i) == \/ hit[j].score > hit[i].score
                      \/ hit[j].score = hit[i].score /\ j < i
      rank(i) == 1 + Cardinality({ j \in M : before(j, i) })
      order == [k \in 1..Cardinality(M) |-> CHOOSE i \in M : rank(i) = k]
  IN  [indices |-> [k \in DOMAIN order |-> hit[order[k]].indices],
       choices |-> [k \in DOMAIN order |-> order[k] - 1]]

(***************************************************************************)
(* State                                                                   *)
(***************************************************************************)

VARIABLES
  secret_prompt,          \* the SecretPrompt object: arguments, status, answer text
  choices,                \* content_control.choices: dicts name, value, enabled, index
  selected_choice_index,  \* content_control.selected_choice_index
  filtered_choices,       \* content_control._filtered_choices: references into choices
  filtered_indices,       \* content_control._filtered_indices
  text,                   \* self._buffer.text
  multiselect,            \* self._multiselect
  invalid,                \* self._invalid
  status,                 \* self.status: answered, result
  application,            \* the Application: running or exited, and its exit result
  raised,                 \* the exception that left the last handler, or "none"
  event,                  \* the last handler that ran
  document                \* the FakeDocument text the last handler gave the validator

\* The state of the FuzzyPrompt.
fuzzy_vars ==
  << choices, selected_choice_index, filtered_choices, filtered_indices, text,
     multiselect, invalid, status, application, raised, event, document >>

vars == << fuzzy_vars, secret_prompt >>

(***************************************************************************)
(* SecretPrompt                                                            *)
(***************************************************************************)

\* Longest secret and longest default.
MaxSecretLen == 2

\* Characters of a secret; "*" is one a user can type as well.
SecretChars == { "s", "*" }

Secrets == UNION { [1..n -> SecretChars] : n \in 0..MaxSecretLen }

\* A str argument.
Str(s) == [type |-> "str", v |-> s]

\* Values passed as default: strings, and an int, None and a callable.
SecretDefaults ==
  { Str(s) : s \in Secrets }
    \cup { [type |-> t, v |-> <<>>] : t \in { "int", "NoneType", "function" } }

\* Values passed as transformer: None or a callable.
Transformers == { "None", "function" }

\* No SecretPrompt was asked for.
NoSecretPrompt ==
  [state |-> "none", raised |-> "none", default |-> Str(<<>>),
   transformer |-> "None", status |-> [answered |-> FALSE, result |-> None],
   post_answer |-> Unset, event |-> "none"]

\* SecretPrompt.__init__ with the arguments default and transformer.
SecretPrompt_init(default, transformer) ==
  IF default.type # "str"
  THEN [NoSecretPrompt EXCEPT !.raised = "InvalidArgument", !.default = default,
                              !.transformer = transformer, !.event = "__init__"]
  ELSE [NoSecretPrompt EXCEPT !.state = "running", !.default = default,
                              !.transformer = transformer, !.event = "__init__"]

\* Python's truth value of status["result"]: None and "" are false.
Truthy(r) == r # None /\ r.v[1] # <<>>

\* "%s" % r
Format(r) == IF r = None THEN <<"N", "o", "n", "e">> ELSE r.v[1]

\* "".join(["*" for _ in r])
Stars(r) == [i \in 1..Len(r.v[1]) |-> "*"]

\* _get_prompt_message that puts the result itself in the answer text.
_get_prompt_message_Echo(p) ==
  IF ~Truthy(p.status.result) THEN <<>> ELSE <<" ">> \o Format(p.status.result)

\* The text of post_answer that _get_prompt_message builds for prompt p.
_get_prompt_message(p) ==
  IF p.transformer = "None"
  THEN IF ~Truthy(p.status.result) THEN <<>> ELSE <<" ">> \o Stars(p.status.result)
  ELSE <<" ">> \o Format(p.status.result)

\* All positions of choices as references, in list order: the list itself.
AllChoices(cs) == [k \in DOMAIN cs |-> k - 1]

\* InquirerPyUIControl._get_choices: the index the default preselects, the
\* last choice whose value equals it, and 0 when there is none.
DefaultIndex(list, default) ==
  LET same == { i \in DOMAIN list : list[i].value = default }
  IN  IF same = {} THEN 0
      ELSE (CHOOSE i \in same : \A j \in same : j <= i) - 1

\* InquirerPyFuzzyControl.__init__: every choice starts disabled and is
\* numbered by its list position.
InitChoices(list) ==
  [i \in DOMAIN list |->
     [name |-> list[i].name, value |-> list[i].value,
      enabled |-> FALSE, index |-> i - 1]]

\* The constructor raised InvalidArgument: no prompt exists.
NotConstructed ==
  /\ choices = <<>>
  /\ selected_choice_index = 0
  /\ filtered_choices = <<>>
  /\ filtered_indices = <<>>
  /\ text = <<>>
  /\ multiselect = FALSE
  /\ invalid = FALSE
  /\ status = [answered |-> FALSE, result |-> None]
  /\ application = [state |-> "none", result |-> Unset]
  /\ raised = "InvalidArgument"
  /\ event = "__init__"
  /\ document = Unset

\* The constructor looking for a Separator in the first choice only.
Construct_FirstOnly(list, default, multi) ==
  IF IsSeparator(list[1].value) THEN NotConstructed
  ELSE /\ choices = InitChoices(list)
       /\ selected_choice_index = DefaultIndex(list, default)
       /\ filtered_choices = AllChoices(list)
       /\ filtered_indices = <<>>
       /\ text = <<>>
       /\ multiselect = multi
       /\ invalid = FALSE
       /\ status = [answered |-> FALSE, result |-> None]
       /\ application = [state |-> "running", result |-> Unset]
       /\ raised = "none"
       /\ event = "__init__"
       /\ document = Unset

\* FuzzyPrompt.__init__ with the arguments list, default and multi.
Construct(list, default, multi) ==
  IF \E i \in DOMAIN list : IsSeparator(list[i].value) THEN NotConstructed
  ELSE /\ choices = InitChoices(list)
       /\ selected_choice_index = DefaultIndex(list, default)
       /\ filtered_choices = AllChoices(list)
       /\ filtered_indices = <<>>
       /\ text = <<>>
       /\ multiselect = multi
       /\ invalid = FALSE
       /\ status = [answered |-> FALSE, result |-> None]
       /\ application = [state |-> "running", result |-> Unset]
       /\ raised = "none"
       /\ event = "__init__"
       /\ document = Unset

Init ==
  /\ \E list \in ChoiceLists, default \in Defaults, multi \in BOOLEAN :
       Construct(list, default, multi)
  /\ secret_prompt = NoSecretPrompt

\* Key bindings and buffer events reach a prompt that runs.
Running == application.state = "running"

(***************************************************************************)
(* InquirerPyFuzzyControl                                                  *)
(***************************************************************************)

\* choice_count
choice_count == Len(filtered_choices)

\* Python's list[i] raises IndexError unless -len <= i < len.
IndexRaises(i, n) == ~(-n <= i /\ i < n)

\* Python's list[i] for an index in range: negative ones count from the end.
At(seq, i) == IF i < 0 THEN seq[Len(seq) + i + 1] ELSE seq[i + 1]

\* selection raises IndexError.
SelectionRaises == IndexRaises(selected_choice_index, choice_count)

\* selection: the dict under the pointer.
selection == choices[At(filtered_choices, selected_choice_index) + 1]

\* _get_formatted_choices: the matched positions row k (0-based) of the view
\* is drawn with, self._filtered_indices[k], and none on IndexError.
RowIndices(indices, k) ==
  IF IndexRaises(k, Len(indices)) THEN <<>> ELSE At(indices, k)

\* filter_choices that keeps every choice whatever the query is.
filter_choices_NoFilter(query) ==
  [choices |-> AllChoices(choices), indices |-> filtered_indices]

\* filter_choices that leaves _filtered_choices as it is on an empty query.
filter_choices_Stale(query) ==
  IF query = <<>> THEN [choices |-> filtered_choices, indices |-> filtered_indices]
  ELSE LET r == fuzzy_match_py(query, choices)
       IN  [choices |-> r.choices, indices |-> r.indices]

\* filter_choices with the buffer holding query: the new _filtered_choices
\* and _filtered_indices.
filter_choices(query) ==
  IF query = <<>> THEN [choices |-> AllChoices(choices), indices |-> filtered_indices]
  ELSE LET r == fuzzy_match_py(query, choices)
       IN  [choices |-> r.choices, indices |-> r.indices]

(***************************************************************************)
(* FuzzyPrompt: the pieces of the handlers                                 *)
(***************************************************************************)

\* selected_choices read from the filtered view instead of the full list.
selected_choices_ViewOrder ==
  SelectSeq([k \in DOMAIN filtered_choices |-> choices[filtered_choices[k] + 1]],
            LAMBDA c : c.enabled)

\* selected_choices: the enabled choices, in list order.
selected_choices == SelectSeq(choices, LAMBDA c : c.enabled)

\* result_value raises IndexError: it reads selection outside multiselect.
result_value_raises == ~multiselect /\ SelectionRaises

\* result_value
result_value ==
  IF multiselect
  THEN List([k \in DOMAIN selected_choices |-> selected_choices[k].value])
  ELSE Value(selection.value)

\* result_name
result_name ==
  IF multiselect
  THEN List([k \in DOMAIN selected_choices |-> selected_choices[k].name])
  ELSE Value(selection.name)

\* _toggle_all that negates every flag whatever value is.
_toggle_all_AlwaysInvert(value) ==
  choices' = [i \in DOMAIN choices |->
                IF IsSeparator(choices[i].value) THEN choices[i]
                ELSE [choices[i] EXCEPT !.enabled = ~@]]

\* _toggle_all that gives every choice the negation of the first one's flag.
_toggle_all_SharedFlag(value) ==
  choices' = [i \in DOMAIN choices |->
                IF IsSeparator(choices[i].value) THEN choices[i]
                ELSE [choices[i] EXCEPT !.enabled =
                        IF value = "True" THEN TRUE ELSE ~choices[1].enabled]]

\* _toggle_all(value), value one of "None", "True", "False":
\* choice["enabled"] = value if value else not choice["enabled"].
_toggle_all(value) ==
  choices' = [i \in DOMAIN choices |->
                IF IsSeparator(choices[i].value) THEN choices[i]
                ELSE [choices[i] EXCEPT !.enabled = IF value = "True" THEN TRUE ELSE ~@]]

\* ClampIndex without its last step, the reset of -1 to 0.
ClampIndex_NoReset(idx, count) ==
  IF idx > count - 1 THEN count - 1 ELSE idx

\* ClampIndex without its first step, the cap at count - 1.
ClampIndex_NoCap(idx, count) ==
  IF idx = -1 THEN 0 ELSE idx

\* ClampIndex that sends the pointer back to the top on every change.
ClampIndex_ToTop(idx, count) == 0

\* The index _on_text_changed leaves, from the old index idx and the new
\* choice_count.
ClampIndex(idx, count) ==
  LET capped == IF idx > count - 1 THEN count - 1 ELSE idx
  IN  IF capped = -1 THEN 0 ELSE capped

\* _on_text_changed that adjusts the index before it filters, against the
\* count of the view it is about to replace.
_on_text_changed_ClampFirst(query) ==
  LET f == filter_choices(query)
  IN  /\ invalid' = FALSE
      /\ filtered_choices' = f.choices
      /\ filtered_indices' = f.indices
      /\ selected_choice_index' = ClampIndex(selected_choice_index, choice_count)

\* _on_text_changed that leaves the invalid flag as it finds it.
_on_text_changed_KeepInvalid(query) ==
  LET f == filter_choices(query)
  IN  /\ UNCHANGED invalid
      /\ filtered_choices' = f.choices
      /\ filtered_indices' = f.indices
      /\ selected_choice_index' = ClampIndex(selected_choice_index, Len(f.choices))

\* _on_text_changed, the buffer holding query.
_on_text_changed(query) ==
  LET f == filter_choices(query)
  IN  /\ invalid' = FALSE
      /\ filtered_choices' = f.choices
      /\ filtered_indices' = f.indices
      /\ selected_choice_index' = ClampIndex(selected_choice_index, Len(f.choices))

\* _handle_down divides by choice_count: ZeroDivisionError when it is 0.
_handle_down_raises == choice_count = 0

\* _handle_down
_handle_down ==
  selected_choice_index' = (selected_choice_index + 1) % choice_count

\* _handle_up divides by choice_count: ZeroDivisionError when it is 0.
_handle_up_raises == choice_count = 0

\* _handle_up
_handle_up ==
  selected_choice_index' = (selected_choice_index - 1) % choice_count

\* _handle_tab reads selection: IndexError when nothing is under the pointer.
_handle_tab_raises == SelectionRaises

\* _handle_tab that toggles the choice at the pointer's position in the full
\* list instead of the one the view shows there.
_handle_tab_ByPosition ==
  choices' = [choices EXCEPT ![selected_choice_index + 1].enabled = ~@]

\* _handle_tab
_handle_tab ==
  choices' = [choices EXCEPT ![selection.index + 1].enabled = ~@]

\* event.app.exit(result=r)
Exit(r) == application' = [state |-> "exited", result |-> r]

\* Commit without the fallback to the choice under the pointer.
Commit_NoFallback ==
  IF multiselect
  THEN /\ status' = [answered |-> TRUE, result |-> result_name]
       /\ Exit(result_value)
  ELSE IF SelectionRaises
       THEN /\ status' = [answered |-> TRUE, result |-> None]
            /\ Exit(None)
       ELSE /\ status' = [answered |-> TRUE, result |-> Value(selection.name)]
            /\ Exit(Value(selection.value))

\* Commit whose IndexError handler answers None in both modes.
Commit_NoneOnEmpty ==
  IF multiselect
  THEN IF selected_choices = <<>>
       THEN IF SelectionRaises
            THEN /\ status' = [answered |-> TRUE, result |-> None]
                 /\ Exit(None)
            ELSE /\ status' = [answered |-> TRUE, result |-> List(<<selection.name>>)]
                 /\ Exit(List(<<selection.value>>))
       ELSE /\ status' = [answered |-> TRUE, result |-> result_name]
            /\ Exit(result_value)
  ELSE IF SelectionRaises
       THEN /\ status' = [answered |-> TRUE, result |-> None]
            /\ Exit(None)
       ELSE /\ status' = [answered |-> TRUE, result |-> Value(selection.name)]
            /\ Exit(Value(selection.value))

\* The second try block of _handle_enter, reached once the validator has
\* accepted; the IndexError selection raises is caught there.
Commit ==
  IF multiselect
  THEN IF selected_choices = <<>>
       THEN IF SelectionRaises
            THEN /\ status' = [answered |-> TRUE, result |-> List(<<>>)]
                 /\ Exit(List(<<>>))
            ELSE /\ status' = [answered |-> TRUE, result |-> List(<<selection.name>>)]
                 /\ Exit(List(<<selection.value>>))
       ELSE /\ status' = [answered |-> TRUE, result |-> result_name]
            /\ Exit(result_value)
  ELSE IF SelectionRaises
       THEN /\ status' = [answered |-> TRUE, result |-> None]
            /\ Exit(None)
       ELSE /\ status' = [answered |-> TRUE, result |-> Value(selection.name)]
            /\ Exit(Value(selection.value))

\* _handle_enter whose ValidationError handler does not return.
_handle_enter_NoReturn(valid) ==
  IF result_value_raises
  THEN /\ raised' = "IndexError"
       /\ document' = Unset
       /\ UNCHANGED << invalid, status, application >>
  ELSE /\ raised' = "none"
       /\ document' = result_value
       /\ Commit
       /\ invalid' = (IF valid THEN invalid ELSE TRUE)

\* _handle_enter. valid is the validator's verdict on the document: it
\* raises ValidationError when valid is FALSE.
_handle_enter(valid) ==
  IF result_value_raises
  THEN /\ raised' = "IndexError"
       /\ document' = Unset
       /\ UNCHANGED << invalid, status, application >>
  ELSE /\ raised' = "none"
       /\ document' = result_value
       /\ IF valid
          THEN Commit /\ UNCHANGED invalid
          ELSE invalid' = TRUE /\ UNCHANGED << status, application >>

(***************************************************************************)
(* Key bindings and buffer events                                          *)
(***************************************************************************)

\* Keys.Enter, the validator answering valid.
Enter(valid) ==
  /\ Running
  /\ event' = "Enter"
  /\ _handle_enter(valid)
  /\ UNCHANGED << choices, selected_choice_index, filtered_choices,
                  filtered_indices, text, multiselect >>
  /\ UNCHANGED secret_prompt

\* Keys.Enter
KeyEnter == \E valid \in BOOLEAN : Enter(valid)

\* Keys.Tab bound without the is_multiselect filter.
KeyTab_NoFilter ==
  /\ Running
  /\ event' = "Tab"
  /\ IF _handle_tab_raises
     THEN raised' = "IndexError" /\ UNCHANGED << choices, selected_choice_index >>
     ELSE /\ _handle_tab
          /\ IF _handle_down_raises
             THEN raised' = "ZeroDivisionError" /\ UNCHANGED selected_choice_index
             ELSE raised' = "none" /\ _handle_down
  /\ document' = Unset
  /\ UNCHANGED << filtered_choices, filtered_indices, text, multiselect,
                  invalid, status, application >>
  /\ UNCHANGED secret_prompt

\* Keys.Tab that moves down first and then toggles the choice it arrives on.
KeyTab_MoveFirst ==
  /\ Running
  /\ multiselect
  /\ event' = "Tab"
  /\ IF _handle_down_raises
     THEN raised' = "ZeroDivisionError" /\ UNCHANGED << choices, selected_choice_index >>
     ELSE /\ _handle_down
          /\ raised' = "none"
          /\ LET n == (selected_choice_index + 1) % choice_count
             IN  choices' = [choices EXCEPT ![filtered_choices[n + 1] + 1].enabled = ~@]
  /\ document' = Unset
  /\ UNCHANGED << filtered_choices, filtered_indices, text, multiselect,
                  invalid, status, application >>
  /\ UNCHANGED secret_prompt

\* Keys.Tab, filter=is_multiselect: _handle_tab(), then _handle_down().
KeyTab ==
  /\ Running
  /\ multiselect
  /\ event' = "Tab"
  /\ IF _handle_tab_raises
     THEN raised' = "IndexError" /\ UNCHANGED << choices, selected_choice_index >>
     ELSE /\ _handle_tab
          /\ IF _handle_down_raises
             THEN raised' = "ZeroDivisionError" /\ UNCHANGED selected_choice_index
             ELSE raised' = "none" /\ _handle_down
  /\ document' = Unset
  /\ UNCHANGED << filtered_choices, filtered_indices, text, multiselect,
                  invalid, status, application >>
  /\ UNCHANGED secret_prompt

\* Keys.BackTab, filter=is_multiselect: _handle_tab(), then _handle_up().
KeyBackTab ==
  /\ Running
  /\ multiselect
  /\ event' = "BackTab"
  /\ IF _handle_tab_raises
     THEN raised' = "IndexError" /\ UNCHANGED << choices, selected_choice_index >>
     ELSE /\ _handle_tab
          /\ IF _handle_up_raises
             THEN raised' = "ZeroDivisionError" /\ UNCHANGED selected_choice_index
             ELSE raised' = "none" /\ _handle_up
  /\ document' = Unset
  /\ UNCHANGED << filtered_choices, filtered_indices, text, multiselect,
                  invalid, status, application >>
  /\ UNCHANGED secret_prompt

\* Keys.Down, c-n
KeyDown ==
  /\ Running
  /\ event' = "Down"
  /\ IF _handle_down_raises
     THEN raised' = "ZeroDivisionError" /\ UNCHANGED selected_choice_index
     ELSE raised' = "none" /\ _handle_down
  /\ document' = Unset
  /\ UNCHANGED << choices, filtered_choices, filtered_indices, text,
                  multiselect, invalid, status, application >>
  /\ UNCHANGED secret_prompt

\* Keys.Up, c-p
KeyUp ==
  /\ Running
  /\ event' = "Up"
  /\ IF _handle_up_raises
     THEN raised' = "ZeroDivisionError" /\ UNCHANGED selected_choice_index
     ELSE raised' = "none" /\ _handle_up
  /\ document' = Unset
  /\ UNCHANGED << choices, filtered_choices, filtered_indices, text,
                  multiselect, invalid, status, application >>
  /\ UNCHANGED secret_prompt

\* A call of _toggle_all(value) under the is_multiselect filter, named name.
ToggleAll(name, value) ==
  /\ Running
  /\ multiselect
  /\ event' = name
  /\ _toggle_all(value)
  /\ raised' = "none"
  /\ document' = Unset
  /\ UNCHANGED << selected_choice_index, filtered_choices, filtered_indices,
                  text, multiselect, invalid, status, application >>
  /\ UNCHANGED secret_prompt

\* escape a, filter=is_multiselect: _toggle_all(True)
KeyEscapeA == ToggleAll("escape-a", "True")

\* escape r, filter=is_multiselect: _toggle_all()
KeyEscapeR == ToggleAll("escape-r", "None")

\* _toggle_all(False): the value its signature admits and no key passes.
ToggleAllFalse == ToggleAll("toggle_all(False)", "False")

\* The buffer's text changes and Buffer fires on_text_changed.
TextChanged ==
  /\ Running
  /\ event' = "text"
  /\ \E query \in Queries \ { text } :
       /\ text' = query
       /\ _on_text_changed(query)
  /\ raised' = "none"
  /\ document' = Unset
  /\ UNCHANGED << choices, multiselect, status, application >>
  /\ UNCHANGED secret_prompt

Next ==
  \/ KeyEnter
  \/ KeyTab
  \/ KeyBackTab
  \/ KeyDown
  \/ KeyUp
  \/ KeyEscapeA
  \/ KeyEscapeR
  \/ ToggleAllFalse
  \/ TextChanged

Spec == Init /\ [][Next]_vars

\* No FuzzyPrompt was asked for.
NoFuzzyPrompt ==
  /\ choices = <<>>
  /\ selected_choice_index = 0
  /\ filtered_choices = <<>>
  /\ filtered_indices = <<>>
  /\ text = <<>>
  /\ multiselect = FALSE
  /\ invalid = FALSE
  /\ status = [answered |-> FALSE, result |-> None]
  /\ application = [state |-> "none", result |-> Unset]
  /\ raised = "none"
  /\ event = "none"
  /\ document = Unset

SecretInit ==
  /\ NoFuzzyPrompt
  /\ \E default \in SecretDefaults, transformer \in Transformers :
       secret_prompt = SecretPrompt_init(default, transformer)

\* The session the prompt inherits stores the text the user entered.
SecretAnswer ==
  /\ secret_prompt.state = "running"
  /\ ~secret_prompt.status.answered
  /\ \E s \in Secrets :
       secret_prompt' = [secret_prompt EXCEPT
                          !.status = [answered |-> TRUE, result |-> Value(s)],
                          !.event = "answer"]
  /\ UNCHANGED fuzzy_vars

\* The session asks for the prompt message.
GetPromptMessage ==
  /\ secret_prompt.state = "running"
  /\ secret_prompt' = [secret_prompt EXCEPT
                         !.post_answer = Value(_get_prompt_message(secret_prompt)),
                         !.event = "_get_prompt_message"]
  /\ UNCHANGED fuzzy_vars

SecretNext ==
  \/ SecretAnswer
  \/ GetPromptMessage

SecretSpec == SecretInit /\ [][SecretNext]_vars

(***************************************************************************)
(* Properties                                                              *)
(***************************************************************************)

\* The candidate Filtered View[cursor] refers to, read off the state.
UnderCursor == choices[filtered_choices[selected_choice_index + 1] + 1]

\* C1: in every reachable state 0 <= cursor < max(1, len(Filtered View)):
\* the cursor is a valid index when the view is non-empty and 0 when it is
\* empty.
C1_CursorInvariant ==
  /\ 0 <= selected_choice_index
  /\ selected_choice_index < (IF Len(filtered_choices) > 1 THEN Len(filtered_choices) ELSE 1)

\* C1 witness: a filter change emptied a two-candidate view, leaving the
\* cursor at 0.
C1_Witness ==
  /\ event = "text"
  /\ Len(choices) = 2
  /\ Len(filtered_choices) = 0
  /\ selected_choice_index = 0

\* C2: move_down and move_up on an empty Filtered View complete without an
\* error and leave cursor, enabled flags and view unchanged.
C2_MoveOnEmptyIsNoOp ==
  [][ ((KeyDown \/ KeyUp) /\ Len(filtered_choices) = 0)
        => /\ raised' = "none"
           /\ UNCHANGED << selected_choice_index, choices, filtered_choices >> ]_vars

\* C3: a single-select commit the validator accepts ends the session with
\* the value of Filtered View[cursor], or with None when the view is empty,
\* and raises nothing.
C3_SingleSelectCommit ==
  [][ (Enter(TRUE) /\ ~multiselect)
        => /\ raised' = "none"
           /\ application'.state = "exited"
           /\ application'.result =
                IF Len(filtered_choices) = 0 THEN None ELSE Value(UnderCursor.value) ]_vars

\* The values of the enabled candidates in the order of their original
\* index, read off the state.
EnabledValuesByIndex ==
  LET on == { i \in DOMAIN choices : choices[i].enabled }
      nth(k) == CHOOSE i \in on :
                  Cardinality({ j \in on : choices[j].index < choices[i].index }) = k - 1
  IN  [k \in 1..Cardinality(on) |-> choices[nth(k)].value]

NoneEnabled == \A i \in DOMAIN choices : ~choices[i].enabled

\* C4: a multiselect commit with no candidate enabled and a non-empty view
\* returns the one-element list holding the value of Filtered View[cursor].
C4_MultiselectFallback ==
  [][ (Enter(TRUE) /\ multiselect /\ NoneEnabled /\ Len(filtered_choices) > 0)
        => /\ raised' = "none"
           /\ application'.state = "exited"
           /\ application'.result = List(<< UnderCursor.value >>) ]_vars

\* C4 witness: such a commit ended the session with the value under the
\* cursor, the view in another order than the list.
C4_Witness ==
  /\ application.state = "exited"
  /\ multiselect
  /\ NoneEnabled
  /\ filtered_choices = <<1, 0>>
  /\ selected_choice_index = 1
  /\ application.result = List(<< choices[1].value >>)

\* C5: a multiselect commit with a candidate enabled returns the values of
\* all enabled candidates in original-index order, whatever the view shows
\* and wherever the cursor is.
C5_MultiselectEnabled ==
  [][ (Enter(TRUE) /\ multiselect /\ ~NoneEnabled)
        => /\ raised' = "none"
           /\ application'.state = "exited"
           /\ application'.result = List(EnabledValuesByIndex) ]_vars

\* C5 witness: two enabled candidates were returned in list order while the
\* view showed them in the opposite order.
C5_Witness ==
  /\ application.state = "exited"
  /\ multiselect
  /\ filtered_choices = <<1, 0>>
  /\ \A i \in DOMAIN choices : choices[i].enabled
  /\ application.result = List(<< choices[1].value, choices[2].value >>)

Rejected == Enter(FALSE) /\ ~result_value_raises

\* C7: when the validator rejects, the invalid flag is set, the session is
\* not answered and keeps running, and cursor, enabled flags, view and query
\* stay as they were.
C7_RejectedCommit ==
  [][ Rejected
        => /\ invalid'
           /\ ~status'.answered
           /\ application'.state = "running"
           /\ application'.result = Unset
           /\ UNCHANGED << selected_choice_index, choices, filtered_choices, text >> ]_vars

\* C7 witness: a commit was rejected and the prompt still runs.
C7_Witness ==
  /\ event = "Enter"
  /\ invalid
  /\ document # Unset
  /\ application.state = "running"
  /\ ~NoneEnabled

\* C8: the value handed to the validator is the value the commit returns
\* when validation passes.
C8_ValidatedIsResult ==
  [][ (Enter(TRUE) /\ raised' = "none")
        => document' = application'.result ]_vars

\* C9: a filter change leaves every candidate as it was (name, value,
\* enabled, index), every row of the view is a candidate, and on an empty
\* query every enabled candidate is in the view again, still enabled.
C9_FilterKeepsCandidates ==
  [][ TextChanged
        => /\ choices' = choices
           /\ \A k \in DOMAIN filtered_choices' : filtered_choices'[k] + 1 \in DOMAIN choices
           /\ text' = <<>> =>
                \A i \in DOMAIN choices :
                  choices[i].enabled =>
                    /\ \E k \in DOMAIN filtered_choices' : filtered_choices'[k] = i - 1
                    /\ choices'[i].enabled ]_vars

\* C9 witness: the query went back to empty with an enabled candidate, and
\* the view shows every candidate.
C9_Witness ==
  /\ event = "text"
  /\ text = <<>>
  /\ Len(choices) = 2
  /\ choices[2].enabled
  /\ ~choices[1].enabled
  /\ filtered_choices = <<0, 1>>

\* C10: toggle_all with an explicit value v leaves every candidate with
\* enabled = v, for v true and for v false.
C10_ToggleAllExplicit ==
  [][ /\ KeyEscapeA => \A i \in DOMAIN choices' : choices'[i].enabled
      /\ ToggleAllFalse => \A i \in DOMAIN choices' : ~choices'[i].enabled ]_vars


\* C11: toggle_all(true) immediately followed by toggle_all(false) leaves
\* every candidate with enabled = false, whatever the flags were before.
C11_ToggleAllTrueThenFalse ==
  [][ (event = "escape-a" /\ ToggleAllFalse)
        => \A i \in DOMAIN choices' : ~choices'[i].enabled ]_vars

\* C11 witness: toggle_all(false) ran on two candidates and left both
\* disabled.
C11_Witness ==
  /\ event = "toggle_all(False)"
  /\ Len(choices) = 2
  /\ NoneEnabled
  /\ text # <<>>

\* C12: a recompute with an empty query leaves the full candidate set in
\* original order as the view, and no matched positions on any row.
C12_EmptyQueryView ==
  [][ (TextChanged /\ text' = <<>>)
        => /\ filtered_choices' = [k \in DOMAIN choices |-> k - 1]
           /\ \A k \in 0..(Len(filtered_choices') - 1) :
                RowIndices(filtered_indices', k) = <<>> ]_vars


\* Two characters that are the same letter, case aside.
SameLetter(a, b) ==
  \/ a = b
  \/ { a, b } \in { { "a", "A" }, { "b", "B" }, { "e", "E" }, { "g", "G" },
                   { "l", "L" }, { "n", "N" }, { "p", "P" }, { "r", "R" } }

\* q[i..] is an ordered subsequence of h[j..], case aside.
RECURSIVE IsSubsequence(_, _, _, _)
IsSubsequence(q, h, i, j) ==
  IF i > Len(q) THEN TRUE
  ELSE IF j > Len(h) THEN FALSE
  ELSE IF SameLetter(q[i], h[j]) THEN IsSubsequence(q, h, i + 1, j + 1)
  ELSE IsSubsequence(q, h, i, j + 1)

\* C13: under a non-empty query every row of the view is one of the
\* candidates, none twice, and a candidate is in the view exactly when its
\* name holds the query's characters as an ordered, case-insensitive
\* subsequence.
C13_ViewIsSubsequenceMatches ==
  text # <<>> =>
    /\ \A k \in DOMAIN filtered_choices : filtered_choices[k] + 1 \in DOMAIN choices
    /\ \A k, l \in DOMAIN filtered_choices :
         filtered_choices[k] = filtered_choices[l] => k = l
    /\ \A i \in DOMAIN choices :
         (\E k \in DOMAIN filtered_choices : filtered_choices[k] = i - 1)
           <=> IsSubsequence(text, choices[i].name, 1, 1)

\* C13 witness: the query "aP" kept "Apple" and dropped the other candidate.
C13_Witness ==
  /\ event = "text"
  /\ text = <<"a", "P">>
  /\ Len(choices) = 2
  /\ Len(filtered_choices) = 1
  /\ choices[filtered_choices[1] + 1].name = Apple

\* C14: toggle_current on an empty Filtered View raises nothing and changes
\* no enabled flag.
C14_ToggleOnEmptyIsNoOp ==
  [][ ((KeyTab \/ KeyBackTab) /\ Len(filtered_choices) = 0)
        => /\ raised' = "none"
           /\ choices' = choices ]_vars

\* C15: toggle_current on a non-empty view negates the enabled flag of the
\* candidate Filtered View[cursor] refers to, found in the full list by its
\* original index, and leaves every other flag, the view and the query as
\* they were.
C15_ToggleCurrent ==
  [][ ((KeyTab \/ KeyBackTab) /\ Len(filtered_choices) > 0)
        => LET t == UnderCursor.index + 1
           IN  /\ raised' = "none"
               /\ DOMAIN choices' = DOMAIN choices
               /\ choices'[t] = [choices[t] EXCEPT !.enabled = ~choices[t].enabled]
               /\ \A i \in DOMAIN choices : i # t => choices'[i] = choices[i]
               /\ UNCHANGED << filtered_choices, text >> ]_vars

\* C15 witness: Tab at the top of a view in the opposite order of the list
\* enabled the second candidate of the list and no other.
C15_Witness ==
  /\ event = "Tab"
  /\ raised = "none"
  /\ filtered_choices = <<1, 0>>
  /\ selected_choice_index = 1
  /\ choices[2].enabled
  /\ ~choices[1].enabled


\* C16: a choice list holding a Separator is refused with InvalidArgument
\* and leaves no prompt to act on; any other list gives a prompt whose
\* candidates all start disabled and carry their list position as index.
C16_Construction ==
  /\ \A i \in DOMAIN choices :
       /\ ~IsSeparator(choices[i].value)
       /\ choices[i].index = i - 1
  /\ event = "__init__" => NoneEnabled
  /\ (event = "__init__" /\ raised = "none") =>
       /\ application.state = "running"
       /\ Len(choices) >= 1
  /\ application.state = "none" <=> raised = "InvalidArgument"
  /\ raised = "InvalidArgument" =>
       /\ choices = <<>>
       /\ filtered_choices = <<>>
       /\ ~status.answered
       /\ ~ENABLED Next

\* C16 witness: the constructor raised InvalidArgument.
C16_Witness ==
  /\ event = "__init__"
  /\ raised = "InvalidArgument"
  /\ application.state = "none"

\* C17: a filter change that empties the view leaves the cursor at 0, and
\* one that refills an empty view leaves it at 0, a valid index; it is never
\* negative nor beyond the new length.
C17_EmptyThenRefilled ==
  [][ TextChanged
        => /\ Len(filtered_choices') = 0 => selected_choice_index' = 0
           /\ (Len(filtered_choices) = 0 /\ Len(filtered_choices') > 0)
                => selected_choice_index' = 0
           /\ selected_choice_index' >= 0
           /\ Len(filtered_choices') > 0
                => selected_choice_index' < Len(filtered_choices') ]_vars

\* C17 witness: a filter change left a non-empty query with both candidates
\* in the view and the cursor on the first.
C17_Witness ==
  /\ event = "text"
  /\ text # <<>>
  /\ Len(filtered_choices) = 2
  /\ selected_choice_index = 0
  /\ ~invalid

\* C18: right after a filter recompute, running it again with the same
\* query gives the same view, the same matched positions and the same
\* cursor.
C18_FilterIdempotent ==
  event = "text" =>
    LET again == filter_choices(text)
    IN  /\ again.choices = filtered_choices
        /\ again.indices = filtered_indices
        /\ ClampIndex(selected_choice_index, Len(again.choices)) = selected_choice_index

\* C18 witness: a recompute left one of two candidates in the view, with
\* its matched positions.
C18_Witness ==
  /\ event = "text"
  /\ text # <<>>
  /\ Len(choices) = 2
  /\ Len(filtered_choices) = 1
  /\ Len(filtered_indices) = 1
  /\ selected_choice_index = 0

\* C19: in single-select mode every candidate is disabled in every state,
\* and none of the toggle bindings is accepted.
C19_SingleSelectNeverEnables ==
  ~multiselect =>
    /\ NoneEnabled
    /\ ~ENABLED KeyTab
    /\ ~ENABLED KeyBackTab
    /\ ~ENABLED KeyEscapeA
    /\ ~ENABLED KeyEscapeR
    /\ ~ENABLED ToggleAllFalse

\* C19 witness: a single-select prompt with two candidates took a filter
\* change and a move.
C19_Witness ==
  /\ ~multiselect
  /\ event = "Down"
  /\ raised = "none"
  /\ text # <<>>
  /\ Len(choices) = 2

\* C20: toggle_all without a value negates the enabled flag of every
\* candidate on its own, those the query hides too, so a second one restores
\* each flag.
C20_ToggleAllInvert ==
  [][ KeyEscapeR
        => /\ DOMAIN choices' = DOMAIN choices
           /\ \A i \in DOMAIN choices :
                choices'[i] = [choices[i] EXCEPT !.enabled = ~choices[i].enabled]
           /\ UNCHANGED << filtered_choices, selected_choice_index, text >> ]_vars

\* C20 witness: toggle_all() left the hidden first candidate enabled and
\* the shown second one disabled.
C20_Witness ==
  /\ event = "escape-r"
  /\ Len(choices) = 2
  /\ filtered_choices = <<1>>
  /\ choices[1].enabled
  /\ ~choices[2].enabled


\* C21: in multiselect mode with a non-empty view, Tab toggles the candidate
\* the cursor points at before the move and then moves the cursor down by
\* one with wrap-around, BackTab toggles it and moves up with wrap-around;
\* with one candidate in view the cursor stays on it.
C21_TabTogglesThenMoves ==
  [][ ((KeyTab \/ KeyBackTab) /\ Len(filtered_choices) > 0)
        => LET N == Len(filtered_choices)
               t == UnderCursor.index + 1
           IN  /\ raised' = "none"
               /\ choices'[t].enabled = ~choices[t].enabled
               /\ \A i \in DOMAIN choices :
                    i # t => choices'[i].enabled = choices[i].enabled
               /\ event' = "Tab"
                    => selected_choice_index' = (selected_choice_index + 1) % N
               /\ event' = "BackTab"
                    => selected_choice_index' = (selected_choice_index - 1 + N) % N
               /\ N = 1 => selected_choice_index' = selected_choice_index ]_vars

\* C21 witness: Tab on the last of two candidates in view enabled it alone
\* and wrapped the cursor to the first.
C21_Witness ==
  /\ event = "Tab"
  /\ raised = "none"
  /\ Len(filtered_choices) = 2
  /\ selected_choice_index = 0
  /\ choices[filtered_choices[2] + 1].enabled
  /\ ~choices[filtered_choices[1] + 1].enabled


\* C22: a filter change whose new view has length N with cursor <= N - 1
\* leaves the cursor index as it was; the index is kept, not the candidate
\* it pointed at.
C22_CursorKeepsPosition ==
  [][ (TextChanged /\ selected_choice_index <= Len(filtered_choices') - 1)
        => selected_choice_index' = selected_choice_index ]_vars

\* C22 witness: after a filter change to a one-letter query the cursor is
\* on the second row, and the view lists the candidates in another order
\* than the choice list, so that row holds the first choice.
C22_Witness ==
  /\ event = "text"
  /\ Len(text) = 1
  /\ selected_choice_index = 1
  /\ filtered_choices = <<1, 0>>

\* The candidate under the cursor is the same after a filter change that
\* keeps the cursor index: refuted, which is the "may change" of C22.
CandidateFollowed ==
  [][ (TextChanged /\ Len(filtered_choices) > 0
         /\ selected_choice_index <= Len(filtered_choices') - 1)
        => choices[filtered_choices'[selected_choice_index' + 1] + 1] = UnderCursor ]_vars


\* C23: the invalid flag goes up only on a commit whose validation fails
\* and goes down only on a text change; moves and toggles leave it as it
\* is, and it is false right after every text change.
C23_InvalidFlag ==
  [][ /\ (~invalid /\ invalid') => Rejected
      /\ (invalid /\ ~invalid') => TextChanged
      /\ TextChanged => ~invalid'
      /\ (KeyDown \/ KeyUp \/ KeyTab \/ KeyBackTab
            \/ KeyEscapeA \/ KeyEscapeR \/ ToggleAllFalse)
           => invalid' = invalid ]_vars

\* C23 witness: the flag set by a rejected commit is still up after a
\* BackTab.
C23_Witness ==
  /\ invalid
  /\ event = "BackTab"
  /\ raised = "none"
  /\ application.state = "running"


====
